---- MODULE Spec2Model ----
(***************************************************************************)
(* A model of the GameMaker Studio 2 project parser (tools/gms2_parser.py, *)
(* class GMS2ProjectParser): the trailing-comma repair and the JSON        *)
(* loading of descriptor files, the room and object renderers, the         *)
(* project scan (category pass and full-tree pass) and the export.         *)
(*                                                                         *)
(* Text is a sequence of symbols.  A symbol is one character ("[", ",",    *)
(* "\"", " ", a digit) or an atom standing for a run of letters that holds *)
(* none of the characters the repair or the JSON scanner look at.          *)
(***************************************************************************)
EXTENDS Integers, Sequences, FiniteSets, TLC

VARIABLES
    text,       \* SpecRepair: the text the repair pass is applied to
    passes,     \* SpecRepair: how many repair passes were applied to text
    prevText,   \* SpecRepair: the text before the last pass
    doc,        \* SpecInfo: the descriptor document as written by the IDE
    content,    \* SpecInfo: the content of the descriptor (.yy) file
    fileState,  \* SpecInfo: "missing" | "file" | "unreadable" (the .yy path)
    info,       \* SpecInfo: the value returned by the last get_*_info call
    tree,       \* the project tree on disk
    order,      \* "up" | "down": the order in which directories list their names
    unreadable, \* the files whose open() or read() raises
    acc,        \* the parser's project_gml_files_details
    scanRes,    \* the value the last scan_project call returned to its caller
    ret,        \* the outcome of the last export_all_data or get_gml_content call;
                \* recs are the records it went through, at the value of mods then
    scans,      \* scan_project calls that returned to a caller: 0, 1, or 2 for more
    mods,       \* how many times the tree was changed
    held        \* the first index the parser's scan_project returned, as the
                \* caller who holds it sees it now

textVars == <<text, passes, prevText>>
infoVars == <<doc, content, fileState, info>>
diskVars == <<tree, order, unreadable, mods>>
parserVars == <<acc, scanRes, ret, scans, held>>
vars == <<text, passes, prevText, doc, content, fileState, info, tree, order,
          unreadable, acc, scanRes, ret, scans, mods, held>>

(***************************************************************************)
(* Bounds of the model.                                                    *)
(***************************************************************************)
MaxLen == 5         \* longest arbitrary text drawn over Alphabet
MaxPasses == 2      \* repair passes applied in a row to one text
MaxLayers == 2      \* layers of a generated room record
MaxEvents == 2      \* events of a generated object record
MaxVars == 2        \* variables of a generated object record
MaxChosen == 3      \* closers of a document up to which every subset gets a comma
MaxNest == 1        \* depth of the folders nested in the reserved folder
MaxMods == 1        \* changes of the project tree in one behaviour

(***************************************************************************)
(* Characters.                                                             *)
(***************************************************************************)
Quote == "\""
Alphabet == {"[", "]", ",", " ", "1", Quote}
Closers == {"]", "}"}
Digits == {"1", "2", "3"}
Literals == {"true", "false", "null"}

\* \s of the regular expression, and the whitespace the JSON scanner skips
IsSpace(c) == c = " "

Texts(n) == UNION {[1..k -> Alphabet] : k \in 0..n}

(***************************************************************************)
(* The repair: re.sub(r",\s*([]}])", r"\1", content).  The text is scanned *)
(* left to right; at a comma followed by whitespace and a closer the whole *)
(* match is replaced by the closer and the scan goes on after the match.   *)
(***************************************************************************)
RECURSIVE SkipSpace(_, _)
SkipSpace(t, i) ==
    IF i <= Len(t) /\ IsSpace(t[i]) THEN SkipSpace(t, i + 1) ELSE i

\* the position of the closer of a match of the pattern at i, or 0
MatchAt(t, i) ==
    IF i <= Len(t) /\ t[i] = ","
    THEN LET j == SkipSpace(t, i + 1)
         IN  IF j <= Len(t) /\ t[j] \in Closers THEN j ELSE 0
    ELSE 0

\* position k lies in a match and before its closer: the match drops it.
\* Matches never overlap (between the comma and the closer of a match there is
\* only whitespace), so every comma where the pattern matches starts a match.
Dropped(t, k) ==
    /\ t[k] = "," \/ IsSpace(t[k])
    /\ \E i \in 1..k : MatchAt(t, i) # 0 /\ k < MatchAt(t, i)

Indices(t) == [k \in 1..Len(t) |-> k]

\* a plausible slip: only the first match is replaced (count=1)
RepairFirstOnly(t) ==
    LET hits == {i \in 1..Len(t) : MatchAt(t, i) # 0}
    IN  IF hits = {} THEN t
        ELSE LET i == CHOOSE h \in hits : \A g \in hits : h <= g
                 j == MatchAt(t, i)
             IN  SubSeq(t, 1, i - 1) \o SubSeq(t, j, Len(t))

\* a plausible slip: the pattern without \s*, a comma directly before a closer
RepairAdjacentOnly(t) ==
    LET kept == SelectSeq(Indices(t),
                    LAMBDA k : ~(t[k] = "," /\ k < Len(t) /\ t[k + 1] \in Closers))
    IN  [n \in 1..Len(kept) |-> t[kept[n]]]

Repair(t) ==
    LET kept == SelectSeq(Indices(t), LAMBDA k : ~Dropped(t, k))
    IN  [n \in 1..Len(kept) |-> t[kept[n]]]

(***************************************************************************)
(* The generic value json.loads yields.  Every value is a record of the    *)
(* same shape: t is its type, s the symbols of a number, string or         *)
(* literal, keys the keys of a map in insertion order and kids the         *)
(* elements of a list or the values of a map.                              *)
(***************************************************************************)
Num(s) == [t |-> "num", s |-> s, keys |-> <<>>, kids |-> <<>>]
Str(s) == [t |-> "str", s |-> s, keys |-> <<>>, kids |-> <<>>]
Lit(c) == [t |-> "lit", s |-> <<c>>, keys |-> <<>>, kids |-> <<>>]
Arr(kids) == [t |-> "arr", s |-> <<>>, keys |-> <<>>, kids |-> kids]
Obj(keys, kids) == [t |-> "obj", s |-> <<>>, keys |-> keys, kids |-> kids]
None == Lit("null")

\* dict[key] = value: a repeated key keeps its place and takes the new value
PutKey(o, k, v) ==
    IF \E i \in 1..Len(o.keys) : o.keys[i] = k
    THEN LET i == CHOOSE n \in 1..Len(o.keys) : o.keys[n] = k
         IN  Obj(o.keys, [o.kids EXCEPT ![i] = v])
    ELSE Obj(Append(o.keys, k), Append(o.kids, v))

(***************************************************************************)
(* json.loads: the scanner of the standard library.  A parse yields        *)
(* [ok, val, pos]: pos is the position after the value.                    *)
(***************************************************************************)
Bad == [ok |-> FALSE, val |-> None, pos |-> 0]
Good(v, p) == [ok |-> TRUE, val |-> v, pos |-> p]

RECURSIVE DigitsEnd(_, _)
DigitsEnd(t, i) ==
    IF i <= Len(t) /\ t[i] \in Digits THEN DigitsEnd(t, i + 1) ELSE i

\* the position of the closing quote of the string opened before i, or 0
RECURSIVE QuoteEnd(_, _)
QuoteEnd(t, i) ==
    IF i > Len(t) THEN 0
    ELSE IF t[i] = Quote THEN i ELSE QuoteEnd(t, i + 1)

ScanString(t, i) ==
    IF i <= Len(t) /\ t[i] = Quote
    THEN LET e == QuoteEnd(t, i + 1)
         IN  IF e = 0 THEN Bad ELSE Good(Str(SubSeq(t, i + 1, e - 1)), e + 1)
    ELSE Bad

RECURSIVE ScanOnce(_, _), ScanElems(_, _, _), ScanMembers(_, _, _)

\* JSONArray after the first value: i is the position after a value
ScanElems(t, i, kids) ==
    LET j == SkipSpace(t, i)
    IN  IF j > Len(t) THEN Bad
        ELSE IF t[j] = "]" THEN Good(Arr(kids), j + 1)
        ELSE IF t[j] = ","
             THEN LET v == ScanOnce(t, SkipSpace(t, j + 1))
                  IN  IF v.ok THEN ScanElems(t, v.pos, Append(kids, v.val))
                      ELSE Bad
             ELSE Bad

\* JSONObject: i is the position where a key must start
ScanMembers(t, i, o) ==
    LET k == ScanString(t, i)
    IN  IF ~k.ok THEN Bad
        ELSE LET c == SkipSpace(t, k.pos)
             IN  IF c > Len(t) \/ t[c] # ":" THEN Bad
                 ELSE LET v == ScanOnce(t, SkipSpace(t, c + 1))
                      IN  IF ~v.ok THEN Bad
                          ELSE LET o2 == PutKey(o, k.val.s, v.val)
                                   j == SkipSpace(t, v.pos)
                               IN  IF j > Len(t) THEN Bad
                                   ELSE IF t[j] = "}" THEN Good(o2, j + 1)
                                   ELSE IF t[j] = ","
                                        THEN ScanMembers(t, SkipSpace(t, j + 1), o2)
                                        ELSE Bad

ScanOnce(t, i) ==
    IF i > Len(t) THEN Bad
    ELSE IF t[i] = Quote THEN ScanString(t, i)
    ELSE IF t[i] \in Digits
         THEN LET e == DigitsEnd(t, i) IN Good(Num(SubSeq(t, i, e - 1)), e)
    ELSE IF t[i] \in Literals THEN Good(Lit(t[i]), i + 1)
    ELSE IF t[i] = "["
         THEN LET j == SkipSpace(t, i + 1)
              IN  IF j <= Len(t) /\ t[j] = "]" THEN Good(Arr(<<>>), j + 1)
                  ELSE LET v == ScanOnce(t, j)
                       IN  IF v.ok THEN ScanElems(t, v.pos, <<v.val>>) ELSE Bad
    ELSE IF t[i] = "{"
         THEN LET j == SkipSpace(t, i + 1)
              IN  IF j <= Len(t) /\ t[j] = "}" THEN Good(Obj(<<>>, <<>>), j + 1)
                  ELSE ScanMembers(t, j, Obj(<<>>, <<>>))
    ELSE Bad

\* json.loads(t): a value between optional whitespace, and nothing after it
Loads(t) ==
    LET v == ScanOnce(t, SkipSpace(t, 1))
    IN  IF v.ok /\ SkipSpace(t, v.pos) = Len(t) + 1 THEN v ELSE Bad

(***************************************************************************)
(* Best-effort field lookup on a loaded record, and Python's truth value,  *)
(* len() and str() of a loaded value.                                      *)
(***************************************************************************)
Key(a) == <<a>>
Has(d, k) == \E i \in 1..Len(d.keys) : d.keys[i] = k

\* dict.get(k, dflt)
Get(d, k, dflt) ==
    IF Has(d, k)
    THEN d.kids[CHOOSE i \in 1..Len(d.keys) : d.keys[i] = k]
    ELSE dflt

Truthy(v) ==
    CASE v.t = "lit" -> v.s = <<"true">>
      [] v.t = "num" -> TRUE
      [] v.t = "str" -> v.s # <<>>
      [] v.t = "arr" -> v.kids # <<>>
      [] v.t = "obj" -> v.keys # <<>>

Sized(v) == v.t \in {"arr", "str", "obj"}

SizeOf(v) ==
    CASE v.t = "arr" -> Len(v.kids)
      [] v.t = "obj" -> Len(v.keys)
      [] OTHER -> Len(v.s)

\* what a for loop over the value yields: the elements of a list, the keys
\* of a map, the characters of a string
Items(v) ==
    CASE v.t = "arr" -> v.kids
      [] v.t = "obj" -> [i \in 1..Len(v.keys) |-> Str(v.keys[i])]
      [] OTHER -> [i \in 1..Len(v.s) |-> Str(<<v.s[i]>>)]

\* str(v) inside an f-string
Show(v) ==
    CASE v.t \in {"str", "num"} -> v.s
      [] v = Lit("true") -> <<"True">>
      [] v = Lit("false") -> <<"False">>
      [] v = Lit("null") -> <<"None">>
      [] OTHER -> <<"<repr>">>

\* s.replace('GM', '') on the type names the model uses
StripGM(s) ==
    [i \in 1..Len(s) |->
        CASE s[i] = "GMInstanceLayer" -> "InstanceLayer"
          [] s[i] = "GMBackgroundLayer" -> "BackgroundLayer"
          [] OTHER -> s[i]]

(***************************************************************************)
(* Rendered lines.  A line is its prefix (the four-character segments      *)
(* before the connector), its connector glyph and what it shows: kind      *)
(* names the node, name and tag are the texts shown and n the count.       *)
(***************************************************************************)
Branch == "|--"     \* the branch glyph, U+251C U+2500 U+2500
Corner == "L--"     \* the terminal glyph, U+2514 U+2500 U+2500
Bar == "|   "       \* the vertical-continuation segment
Blank == "    "     \* the blank segment

Line(pre, glyph, kind, name, n, tag) ==
    [pre |-> pre, glyph |-> glyph, kind |-> kind, name |-> name, n |-> n,
     tag |-> tag]

\* the string order of sorted() on the object names the model uses
NameRank(s) ==
    CASE s = <<"UnknownObject">> -> 1
      [] s = <<"obj_a">> -> 2
      [] s = <<"obj_b">> -> 3
      [] OTHER -> 4

RECURSIVE SortNames(_)
SortNames(S) ==
    IF S = {} THEN <<>>
    ELSE LET m == CHOOSE x \in S : \A y \in S : NameRank(x) <= NameRank(y)
         IN  <<m>> \o SortNames(S \ {m})

\* inst.get('objId', {}).get('name', 'UnknownObject')
InstName(inst) ==
    Get(Get(inst, Key("objId"), Obj(<<>>, <<>>)), Key("name"),
        Str(<<"UnknownObject">>))

\* gms2_parser.py 315-333: the lines under an instance layer
InstanceLines(layer, connector) ==
    LET instances == Get(layer, Key("instances"), Arr(<<>>))
        insts == Items(instances)
        names == {Show(InstName(insts[i])) : i \in 1..Len(insts)}
        sorted == SortNames(names)
        Count(nm) == Cardinality({i \in 1..Len(insts) : Show(InstName(insts[i])) = nm})
    IN  IF Truthy(instances)
        THEN <<Line(<<connector, Blank>>, Corner, "instances", <<"Instances">>,
                    SizeOf(instances), <<>>)>>
             \o [j \in 1..Len(sorted) |->
                    Line(<<connector, Blank, Blank>>,
                         IF j = Len(sorted) THEN Corner ELSE Branch,
                         "object", sorted[j], Count(sorted[j]),
                         IF Count(sorted[j]) > 1 THEN <<"x">> ELSE <<>>)]
        ELSE <<>>

LayerType(layer) ==
    Get(layer, Key("__type"), Get(layer, Key("modelName"), Str(<<"Unknown">>)))

\* gms2_parser.py 306-333: the lines of layer i of n
LayerLines(layer, i, n) ==
    LET isLast == (i = n)
        connector == IF ~isLast THEN Bar ELSE Blank
        name == Get(layer, Key("name"), Str(<<"Unnamed Layer ", ToString(i - 1)>>))
    IN  <<Line(<<connector>>, IF isLast THEN Corner ELSE Branch, "layer",
               Show(name), 0, StripGM(LayerType(layer).s))>>
        \o (IF LayerType(layer) = Str(<<"GMInstanceLayer">>)
            THEN InstanceLines(layer, connector) ELSE <<>>)

RECURSIVE Flatten(_)
Flatten(ss) == IF ss = <<>> THEN <<>> ELSE Head(ss) \o Flatten(Tail(ss))

\* gms2_parser.py 303: the connector of the "Layers" node
LayersGlyph(data) ==
    IF Truthy(Get(data, Key("roomSettings"), None))
       \/ Get(data, Key("isPersistent"), None) # None
    THEN Branch ELSE Corner

\* gms2_parser.py 336-356: the "Properties" node and its items
PropertyLines(data) ==
    LET settings == Get(data, Key("roomSettings"), Obj(<<>>, <<>>))
        code == Get(data, Key("creationCodeFile"), Str(<<>>))
        items ==
            <<<<<<"Width">>, Show(Get(settings, Key("Width"), Str(<<"?">>)))>>,
              <<<<"Height">>, Show(Get(settings, Key("Height"), Str(<<"?">>)))>>,
              <<<<"Speed">>, Show(Get(settings, Key("Speed"), Num(<<"3", "0">>)))>>,
              <<<<"Persistent">>, Show(Get(data, Key("isPersistent"), Lit("false")))>>>>
            \o (IF Truthy(code) THEN <<<<<<"Creation Code">>, Show(code)>>>> ELSE <<>>)
    IN  IF Truthy(settings)
        THEN <<Line(<<>>, Corner, "properties", <<"Properties">>, 0, <<>>)>>
             \o [k \in 1..Len(items) |->
                    Line(<<Blank>>, IF k = Len(items) THEN Corner ELSE Branch,
                         "prop", items[k][1], 0, items[k][2])]
        ELSE <<>>

\* _format_room_data raises (AttributeError, TypeError) on these records
LayerRaises(layer) ==
    \/ layer.t # "obj"
    \/ LayerType(layer).t # "str"
    \/ /\ LayerType(layer) = Str(<<"GMInstanceLayer">>)
       /\ LET instances == Get(layer, Key("instances"), Arr(<<>>))
          IN  /\ Truthy(instances)
              /\ \/ ~Sized(instances)
                 \/ \E i \in 1..SizeOf(instances) :
                        LET inst == Items(instances)[i]
                        IN  \/ inst.t # "obj"
                            \/ Get(inst, Key("objId"), Obj(<<>>, <<>>)).t # "obj"
                            \/ InstName(inst).t \in {"arr", "obj"}

FormatRoomRaises(data) ==
    \/ data.t # "obj"
    \/ LET layers == Get(data, Key("layers"), Arr(<<>>))
       IN  \/ ~Sized(layers)
           \/ \E i \in 1..SizeOf(layers) : LayerRaises(Items(layers)[i])
    \/ LET settings == Get(data, Key("roomSettings"), Obj(<<>>, <<>>))
       IN  Truthy(settings) /\ settings.t # "obj"
    \/ LET code == Get(data, Key("creationCodeFile"), Str(<<>>))
       IN  /\ Truthy(Get(data, Key("roomSettings"), Obj(<<>>, <<>>)))
           /\ Truthy(code) /\ code.t # "str"

\* a plausible slip: the loop stops one layer short (range(len(layers) - 1))
FormatRoomDataSkipLast(data) ==
    LET layers == Get(data, Key("layers"), Arr(<<>>))
        n == SizeOf(layers)
    IN  <<Line(<<>>, "", "room",
               Show(Get(data, Key("name"), Str(<<"Unknown Room">>))), 0, <<>>),
          Line(<<>>, LayersGlyph(data), "layers", <<"Layers">>, n, <<>>)>>
        \o Flatten([i \in 1..(IF n > 0 THEN n - 1 ELSE 0) |->
                        LayerLines(Items(layers)[i], i, n)])
        \o PropertyLines(data)

\* gms2_parser.py 296-358: the rendered tree of a room record
FormatRoomData(data) ==
    LET layers == Get(data, Key("layers"), Arr(<<>>))
        n == SizeOf(layers)
    IN  <<Line(<<>>, "", "room",
               Show(Get(data, Key("name"), Str(<<"Unknown Room">>))), 0, <<>>),
          Line(<<>>, LayersGlyph(data), "layers", <<"Layers">>, n, <<>>)>>
        \o Flatten([i \in 1..n |-> LayerLines(Items(layers)[i], i, n)])
        \o PropertyLines(data)

(***************************************************************************)
(* The object renderer.  Its lines carry no prefix and no glyph: kind is   *)
(* "title", "rule", "blank", "section", "field", "var" or "none".          *)
(***************************************************************************)
Plain(kind, name, n, tag) == Line(<<>>, "", kind, name, n, tag)
BlankLine == Plain("blank", <<>>, 0, <<>>)

\* x.get('name', dflt) if x else dflt, for spriteId, spriteMaskId, parentObjectId
RefName(data, k, dflt) ==
    LET ref == Get(data, Key(k), None)
    IN  IF Truthy(ref) THEN Show(Get(ref, Key("name"), Str(<<dflt>>))) ELSE <<dflt>>

Field(data, label, k, dflt) == Plain("field", <<label>>, 0, Show(Get(data, Key(k), dflt)))

\* a plausible slip: the block of an enabled object has nine field lines only
PhysicsLinesNine(data) ==
    IF Truthy(Get(data, Key("physicsObject"), Lit("false")))
    THEN <<BlankLine,
           Plain("section", <<"Physics Properties">>, 0, <<>>),
           Field(data, "Sensor", "physicsSensor", Lit("false")),
           Field(data, "Shape", "physicsShape", Num(<<"1">>)),
           Field(data, "Density", "physicsDensity", Num(<<"0.5">>)),
           Field(data, "Restitution", "physicsRestitution", Num(<<"0.1">>)),
           Field(data, "Group", "physicsGroup", Num(<<"1">>)),
           Field(data, "Linear Damping", "physicsLinearDamping", Num(<<"0.1">>)),
           Field(data, "Angular Damping", "physicsAngularDamping", Num(<<"0.1">>)),
           Field(data, "Friction", "physicsFriction", Num(<<"0.2">>)),
           Field(data, "Awake", "physicsStartAwake", Lit("true"))>>
    ELSE <<BlankLine,
           Plain("section", <<"Physics Properties">>, 0, <<>>),
           Plain("field", <<"Enabled">>, 0, <<"False">>)>>

\* gms2_parser.py 388-406: the "Physics Properties" block
PhysicsLines(data) ==
    IF Truthy(Get(data, Key("physicsObject"), Lit("false")))
    THEN <<BlankLine,
           Plain("section", <<"Physics Properties">>, 0, <<>>),
           Plain("field", <<"Enabled">>, 0, <<"True">>),
           Field(data, "Sensor", "physicsSensor", Lit("false")),
           Field(data, "Shape", "physicsShape", Num(<<"1">>)),
           Field(data, "Density", "physicsDensity", Num(<<"0.5">>)),
           Field(data, "Restitution", "physicsRestitution", Num(<<"0.1">>)),
           Field(data, "Group", "physicsGroup", Num(<<"1">>)),
           Field(data, "Linear Damping", "physicsLinearDamping", Num(<<"0.1">>)),
           Field(data, "Angular Damping", "physicsAngularDamping", Num(<<"0.1">>)),
           Field(data, "Friction", "physicsFriction", Num(<<"0.2">>)),
           Field(data, "Awake", "physicsStartAwake", Lit("true")),
           Field(data, "Kinematic", "physicsKinematic", Lit("false"))>>
    ELSE <<BlankLine,
           Plain("section", <<"Physics Properties">>, 0, <<>>),
           Plain("field", <<"Enabled">>, 0, <<"False">>)>>

\* gms2_parser.py 383-386: the "Events (N)" line; no line per event follows
EventLines(data) ==
    LET events == Get(data, Key("eventList"), Arr(<<>>))
    IN  <<BlankLine, Plain("section", <<"Events">>, SizeOf(events), <<"count">>)>>

\* gms2_parser.py 408-419: the "Object Variables (M)" block
VariableLine(prop) ==
    Plain("var",
          Show(Get(prop, Key("name"), Get(prop, Key("varName"), Str(<<"UnknownVar">>)))),
          0,
          Show(Get(prop, Key("value"), Get(prop, Key("varValue"), Str(<<"UnknownVal">>))))
          \o <<"(Type:">>
          \o Show(Get(prop, Key("type"), Get(prop, Key("varType"), Str(<<"?">>)))))

\* a plausible slip: only the variables that carry a 'name' field are listed
VariableLinesNamedOnly(data) ==
    LET props == Get(data, Key("properties"), Arr(<<>>))
        named == SelectSeq(Items(props), LAMBDA q : Has(q, Key("name")))
    IN  <<BlankLine, Plain("section", <<"Object Variables">>, SizeOf(props), <<"count">>)>>
        \o (IF Truthy(props)
            THEN [i \in 1..Len(named) |-> VariableLine(named[i])]
            ELSE <<Plain("none", <<"(None)">>, 0, <<>>)>>)

VariableLines(data) ==
    LET props == Get(data, Key("properties"), Arr(<<>>))
    IN  <<BlankLine, Plain("section", <<"Object Variables">>, SizeOf(props), <<"count">>)>>
        \o (IF Truthy(props)
            THEN [i \in 1..SizeOf(props) |-> VariableLine(Items(props)[i])]
            ELSE <<Plain("none", <<"(None)">>, 0, <<>>)>>)

\* _format_object_data raises (AttributeError, TypeError) on these records
FormatObjectRaises(data) ==
    \/ data.t # "obj"
    \/ ~Sized(Get(data, Key("name"), Str(<<"Unknown Object">>)))
    \/ \E k \in {"spriteId", "spriteMaskId", "parentObjectId"} :
          LET ref == Get(data, Key(k), None) IN Truthy(ref) /\ ref.t # "obj"
    \/ ~Sized(Get(data, Key("eventList"), Arr(<<>>)))
    \/ LET props == Get(data, Key("properties"), Arr(<<>>))
       IN  \/ ~Sized(props)
           \/ \E i \in 1..SizeOf(props) : Items(props)[i].t # "obj"

\* gms2_parser.py 360-421: the rendered text of an object record
FormatObjectData(data) ==
    LET name == Get(data, Key("name"), Str(<<"Unknown Object">>))
    IN  <<Plain("title", Show(name), 0, <<>>),
          Plain("rule", <<"=">>, SizeOf(name) + 8, <<>>),
          BlankLine,
          Plain("section", <<"Properties">>, 0, <<>>),
          Plain("field", <<"Sprite">>, 0, RefName(data, "spriteId", "None")),
          Plain("field", <<"Mask">>, 0, RefName(data, "spriteMaskId", "Same as Sprite")),
          Plain("field", <<"Parent">>, 0, RefName(data, "parentObjectId", "None")),
          Field(data, "Visible", "visible", Lit("true")),
          Field(data, "Solid", "solid", Lit("false")),
          Field(data, "Persistent", "persistent", Lit("false"))>>
        \o EventLines(data)
        \o PhysicsLines(data)
        \o VariableLines(data)

(***************************************************************************)
(* The descriptor files the model loads.  A document is serialised the way *)
(* json.dumps writes it; the IDE then writes a comma before some of the    *)
(* closing brackets and braces.                                            *)
(***************************************************************************)
RECURSIVE ToText(_), JoinValues(_), JoinMembers(_, _)
JoinValues(kids) ==
    IF kids = <<>> THEN <<>>
    ELSE ToText(Head(kids))
         \o (IF Len(kids) > 1 THEN <<",">> \o JoinValues(Tail(kids)) ELSE <<>>)

JoinMembers(keys, kids) ==
    IF keys = <<>> THEN <<>>
    ELSE <<Quote>> \o Head(keys) \o <<Quote, ":">> \o ToText(Head(kids))
         \o (IF Len(keys) > 1 THEN <<",">> \o JoinMembers(Tail(keys), Tail(kids))
             ELSE <<>>)

ToText(v) ==
    CASE v.t = "str" -> <<Quote>> \o v.s \o <<Quote>>
      [] v.t = "arr" -> <<"[">> \o JoinValues(v.kids) \o <<"]">>
      [] v.t = "obj" -> <<"{">> \o JoinMembers(v.keys, v.kids) \o <<"}">>
      [] OTHER -> v.s

\* the closing brackets and braces of t that stand outside string literals
StructuralClosers(t) ==
    {i \in 1..Len(t) :
        /\ t[i] \in Closers
        /\ Cardinality({j \in 1..(i - 1) : t[j] = Quote}) % 2 = 0}

RECURSIVE InsertFrom(_, _, _)
InsertFrom(t, S, from) ==
    IF S = {} THEN SubSeq(t, from, Len(t))
    ELSE LET c == CHOOSE x \in S : \A y \in S : x <= y
         IN  SubSeq(t, from, c - 1) \o <<",">> \o InsertFrom(t, S \ {c}, c)

\* t with a comma written before each closer whose position is in S
InsertCommas(t, S) == InsertFrom(t, S, 1)

CommaChoices(t) ==
    LET cl == StructuralClosers(t)
    IN  IF Cardinality(cl) <= MaxChosen THEN SUBSET cl ELSE {{}, cl}

\* an object of the given fields: <<key, value>> pairs
RECURSIVE Record(_)
Record(fields) ==
    IF fields = <<>> THEN Obj(<<>>, <<>>)
    ELSE LET o == Record(SubSeq(fields, 1, Len(fields) - 1))
             f == fields[Len(fields)]
         IN  PutKey(o, Key(f[1]), f[2])

SeqsUpTo(S, n) == UNION {[1..k -> S] : k \in 0..n}

Instance(nm) == Record(<<<<"objId", Record(<<<<"name", Str(<<nm>>)>>>>)>>>>)

LayerChoices ==
    {Record(<<<<"name", Str(<<"bg">>)>>, <<"__type", Str(<<"GMBackgroundLayer">>)>>>>),
     Record(<<<<"__type", Str(<<"GMInstanceLayer">>)>>, <<"instances", Arr(<<>>)>>>>),
     Record(<<<<"name", Str(<<"Instances">>)>>, <<"__type", Str(<<"GMInstanceLayer">>)>>,
              <<"instances", Arr(<<Instance("obj_a"), Instance("obj_a")>>)>>>>),
     Record(<<<<"name", Str(<<"Instances">>)>>, <<"__type", Str(<<"GMInstanceLayer">>)>>,
              <<"instances",
                Arr(<<Instance("obj_b"), Instance("obj_a"), Obj(<<>>, <<>>)>>)>>>>)}

\* the optional fields of a room record: each is absent or has one of its values
SettingsChoices ==
    {<<>>,
     <<<<"roomSettings", Obj(<<>>, <<>>)>>>>,
     <<<<"roomSettings", Record(<<<<"Width", Num(<<"1">>)>>>>)>>,
       <<"creationCodeFile", Str(<<"code.gml">>)>>>>}

PersistentChoices ==
    {<<>>, <<<<"isPersistent", Lit("false")>>>>, <<<<"isPersistent", None>>>>}

RoomRecords ==
    {Record(<<<<"name", Str(<<"rm_test">>)>>>> \o l \o rs \o ip) :
        l \in {<<>>} \cup {<<<<"layers", Arr(ls)>>>> : ls \in SeqsUpTo(LayerChoices, MaxLayers)},
        rs \in SettingsChoices, ip \in PersistentChoices}

EventChoices == {Record(<<<<"eventNum", Num(<<"1">>)>>>>)}

VariableChoices ==
    {Record(<<<<"name", Str(<<"hp">>)>>, <<"value", Num(<<"3">>)>>, <<"type", Num(<<"1">>)>>>>),
     Record(<<<<"varName", Str(<<"hp">>)>>, <<"varValue", Num(<<"3">>)>>>>)}

PhysicsChoices ==
    {<<>>, <<<<"physicsObject", Lit("false")>>>>,
     <<<<"physicsObject", Lit("true")>>, <<"physicsShape", Num(<<"2">>)>>>>}

ObjectRecords ==
    {Record(<<<<"name", Str(<<"obj_a">>)>>>> \o ev \o ph \o pr) :
        ev \in {<<>>} \cup {<<<<"eventList", Arr(es)>>>> : es \in SeqsUpTo(EventChoices, MaxEvents)},
        ph \in PhysicsChoices,
        pr \in {<<>>} \cup {<<<<"properties", Arr(ps)>>>> : ps \in SeqsUpTo(VariableChoices, MaxVars)}}

\* the example of the specification: {"a": 1, "b": [2, 3,],} without its commas
ExampleDoc ==
    <<"{", Quote, "a", Quote, ":", " ", "1", ",", " ", Quote, "b", Quote, ":", " ",
      "[", "2", ",", " ", "3", "]", "}">>

\* records whose fields have types the renderers do not expect, and texts no
\* repair makes valid
OddDocs ==
    {ToText(Record(<<<<"layers", None>>>>)),
     ToText(Record(<<<<"layers", Arr(<<Num(<<"1">>)>>)>>>>)),
     ToText(Record(<<<<"name", Num(<<"1">>)>>, <<"properties", Num(<<"1">>)>>>>)),
     ToText(Record(<<<<"name", Str(<<"rm", ",", "]">>)>>>>)),
     <<"[", "1">>, <<"{", Quote, "a", Quote, "}">>}

ValidShortDocs == {t \in Texts(MaxLen) : Loads(t).ok}

Docs ==
    ValidShortDocs \cup {ExampleDoc} \cup OddDocs
    \cup {ToText(r) : r \in RoomRecords} \cup {ToText(r) : r \in ObjectRecords}

(***************************************************************************)
(* The project tree.  A path is the sequence of names below the project    *)
(* root (<<>> is the root itself); the tree is the kind of the root and    *)
(* the sets of paths that are regular files and directories.               *)
(***************************************************************************)
NestDir(k) == <<"Options">> \o [i \in 1..k |-> "sub"]

FileCands ==
    {<<"p.yyp">>, <<"q.yyp">>, <<"objects", "o1", "o1.yy">>, <<"objects", "o1", "a.gml">>,
     <<"objects", "o1", "b.gml">>, <<"objects", "options", "a.gml">>}
    \cup {NestDir(k) \o <<"a.gml">> : k \in 0..MaxNest}

DirCands ==
    {<<"objects">>, <<"objects", "o1">>, <<"objects", "options">>,
     <<"objects", "o1", "b.gml">>}
    \cup {NestDir(k) : k \in 0..MaxNest}

Parent(p) == SubSeq(p, 1, Len(p) - 1)
BaseName(p) == p[Len(p)]

IsDir(t, p) == IF p = <<>> THEN t.root = "dir" ELSE p \in t.dirs
IsFile(t, p) == IF p = <<>> THEN t.root = "file" ELSE p \in t.files
Exists(t, p) == IsDir(t, p) \/ IsFile(t, p)

WellFormed(t) ==
    /\ t.files \cap t.dirs = {}
    /\ \A p \in t.files \cup t.dirs : IsDir(t, Parent(p))

Trees ==
    {t \in [root : {"none", "file", "dir"}, files : SUBSET FileCands,
               dirs : SUBSET DirCands] : WellFormed(t)}

\* the root of the project, self.project_path
ProjectPath == "/proj"
Abs(p) == <<ProjectPath>> \o p         \* os.path.join(self.project_path, ...)
RelPath(abs) == Tail(abs)              \* os.path.relpath(..., self.project_path)

\* str.endswith, os.path.splitext and str.lower on the names of the tree
EndsWith(name, ext) ==
    CASE ext = ".gml" -> name \in {"a.gml", "b.gml"}
      [] ext = ".yyp" -> name \in {"p.yyp", "q.yyp"}
      [] ext = ".yy" -> name \in {"o1.yy"}
      [] OTHER -> FALSE

Stem(name) ==
    CASE name = "a.gml" -> "a"
      [] name = "b.gml" -> "b"
      [] OTHER -> name

Lower(name) == IF name = "Options" THEN "options" ELSE name

\* the order of Python's string comparison on the names of the tree
Rank(name) ==
    CASE name = "Options" -> 1
      [] name = "a.gml" -> 2
      [] name = "b.gml" -> 3
      [] name = "o1" -> 4
      [] name = "o1.yy" -> 5
      [] name = "objects" -> 6
      [] name = "options" -> 7
      [] name = "p.yyp" -> 8
      [] name = "q.yyp" -> 9
      [] name = "sub" -> 10
      [] OTHER -> 11

RECURSIVE SortBy(_, _)
SortBy(S, up) ==
    IF S = {} THEN <<>>
    ELSE LET m == CHOOSE x \in S : \A y \in S :
                      IF up THEN Rank(x) <= Rank(y) ELSE Rank(x) >= Rank(y)
         IN  <<m>> \o SortBy(S \ {m}, up)

ChildNames(t, d) ==
    {BaseName(p) : p \in {q \in t.files \cup t.dirs : Parent(q) = d}}

\* os.listdir(d): the names in the order the file system gives them
ListDir(t, ord, d) == SortBy(ChildNames(t, d), ord = "up")

\* sorted(names)
Sorted(names) == SortBy({names[i] : i \in 1..Len(names)}, TRUE)

(***************************************************************************)
(* scan_project: the category pass.                                        *)
(***************************************************************************)
AssetCategories ==
    <<<<"Objects", "objects">>, <<"Scripts", "scripts">>, <<"Rooms", "rooms">>,
      <<"Sprites", "sprites">>, <<"Notes", "notes">>, <<"Tile Sets", "tilesets">>,
      <<"Timelines", "timelines">>, <<"Fonts", "fonts">>, <<"Sounds", "sounds">>,
      <<"Extensions", "extensions">>>>

NoPath == <<>>      \* None where a path may stand

\* category_name.lower().rstrip('s')
Singular(display) ==
    CASE display = "Objects" -> "object"
      [] display = "Scripts" -> "script"
      [] display = "Rooms" -> "room"
      [] display = "Sprites" -> "sprite"
      [] display = "Notes" -> "note"
      [] display = "Tile Sets" -> "tile set"
      [] display = "Timelines" -> "timeline"
      [] display = "Fonts" -> "font"
      [] display = "Sounds" -> "sound"
      [] OTHER -> "extension"

\* gms2_parser.py 78-98: the entry of one asset folder
AssetInfo(t, ord, assetPath, display) ==
    LET name == BaseName(assetPath)
        yy == assetPath \o <<name \o ".yy">>
        listed == ListDir(t, ord, assetPath)
        gml == SelectSeq(listed, LAMBDA f : EndsWith(f, ".gml"))
    IN  [name |-> name,
         path |-> Abs(assetPath),
         type |-> Singular(display),
         yy_file |-> IF IsFile(t, yy) THEN Abs(yy) ELSE NoPath,
         gml_files |-> [i \in 1..Len(gml) |->
                           [name |-> gml[i], path |-> Abs(assetPath \o <<gml[i]>>)]]]

\* gms2_parser.py 67-105
ScanCategory(t, ord, categoryPath, display) ==
    LET names == Sorted(ListDir(t, ord, categoryPath))
        assets == SelectSeq(names, LAMBDA a : IsDir(t, categoryPath \o <<a>>))
    IN  [path |-> Abs(categoryPath),
         assets |-> [i \in 1..Len(assets) |->
                        AssetInfo(t, ord, categoryPath \o <<assets[i]>>, display)]]

\* gms2_parser.py 55-58: the categories whose folder exists, in table order
Categories(t, ord) ==
    LET present == SelectSeq(AssetCategories, LAMBDA c : IsDir(t, <<c[2]>>))
    IN  [i \in 1..Len(present) |->
            [display |-> present[i][1],
             info |-> ScanCategory(t, ord, <<present[i][2]>>, present[i][1])]]

(***************************************************************************)
(* scan_project: the full-tree pass.                                    *)
(***************************************************************************)
ReservedFolders == {"options", "datafiles", "configs", ".git", ".vscode", "temp"}

\* a plausible slip: the name is compared as it is spelled (no .lower())
PrunedCaseSensitive(d) == d # <<>> /\ d[1] \in ReservedFolders

\* a plausible slip: the folder name is matched at any depth
PrunedAnyDepth(d) == \E i \in 1..Len(d) : Lower(d[i]) \in ReservedFolders

\* gms2_parser.py 111-114: d lies in or is a reserved top-level folder
Pruned(d) == d # <<>> /\ Lower(d[1]) \in ReservedFolders

\* os.walk with the pruning of lines 115-116: the directories the loop visits,
\* top down, the subdirectories of each in listing order
RECURSIVE WalkFrom(_, _, _)
WalkFrom(t, ord, d) ==
    LET listed == ListDir(t, ord, d)
        subs == IF Pruned(d) THEN <<>>
                ELSE SelectSeq(listed, LAMBDA n : IsDir(t, d \o <<n>>))
    IN  <<d>> \o Flatten([i \in 1..Len(subs) |-> WalkFrom(t, ord, d \o <<subs[i]>>)])

\* gms2_parser.py 118-138: the records of the script files directly in d
GmlRecords(t, ord, d) ==
    LET listed == ListDir(t, ord, d)
        files == SelectSeq(listed, LAMBDA n : IsFile(t, d \o <<n>>))
        gml == SelectSeq(Sorted(files), LAMBDA f : EndsWith(f, ".gml"))
        parentName == IF d = <<>> THEN ProjectPath ELSE BaseName(d)
        yy == d \o <<parentName \o ".yy">>
    IN  [i \in 1..Len(gml) |->
            [display |-> <<parentName, Stem(gml[i])>>,
             path |-> Abs(d \o <<gml[i]>>),
             rel |-> RelPath(Abs(d \o <<gml[i]>>)),
             yy |-> IF IsFile(t, yy) THEN Abs(yy) ELSE NoPath]]

\* gms2_parser.py 107-138
ScanGmlFiles(t, ord) ==
    LET visited == WalkFrom(t, ord, <<>>)
    IN  Flatten([i \in 1..Len(visited) |->
                    IF Pruned(visited[i]) THEN <<>>
                    ELSE GmlRecords(t, ord, visited[i])])

(***************************************************************************)
(* scan_project, export_all_data and get_gml_content.                      *)
(***************************************************************************)
NoHeld == [kind |-> "none", gml |-> <<>>, total |-> 0]
NoScan == [kind |-> "none", categories |-> <<>>, gml |-> <<>>, total |-> 0]
NoRet == [op |-> "none", kind |-> "none", arg |-> NoPath, recs |-> <<>>, at |-> 0, blocks |-> <<>>]

\* gms2_parser.py 22-28: how the call ends.  os.listdir raises
\* NotADirectoryError on a root that is a regular file; nothing catches it.
ScanOutcome(t, ord) ==
    IF ~Exists(t, <<>>) THEN "not_found"
    ELSE IF ~IsDir(t, <<>>) THEN "raise"
    ELSE IF SelectSeq(ListDir(t, ord, <<>>), LAMBDA f : EndsWith(f, ".yyp")) = <<>>
         THEN "no_manifest"
    ELSE "ok"

\* a plausible slip: the list is not cleared before the scan appends to it
AccumulateNoClear(old, t, ord) == old \o ScanGmlFiles(t, ord)

\* gms2_parser.py 30 and 61: the list is cleared and the walk appends to it
Accumulate(old, t, ord) == ScanGmlFiles(t, ord)

\* the accumulator after a scan_project call
AccAfterScan(old, t, ord) ==
    IF ScanOutcome(t, ord) = "ok" THEN Accumulate(old, t, ord) ELSE old

\* gms2_parser.py 20-65: the value returned
ScanResult(old, t, ord) ==
    LET kind == ScanOutcome(t, ord)
        recs == AccAfterScan(old, t, ord)
    IN  IF kind = "ok"
        THEN [kind |-> "ok",
              categories |-> Categories(t, ord),
              gml |-> recs,
              total |-> Len(recs)]
        ELSE [kind |-> kind, categories |-> <<>>, gml |-> <<>>, total |-> 0]

\* gms2_parser.py 62: structure["gml_files"] is the parser's list itself, not
\* a copy of it; an index that a caller holds shows what the list holds now
Shared(h, list) == IF h.kind = "ok" THEN [h EXCEPT !.gml = list] ELSE h

\* gms2_parser.py 62-65: the index the caller keeps
HeldAfterScan(h, res, list) ==
    IF h.kind = "none" /\ res.kind = "ok"
    THEN [kind |-> "ok", gml |-> list, total |-> res.total]
    ELSE Shared(h, list)

ScanProject ==
    /\ LET list == AccAfterScan(acc, tree, order)
           res == ScanResult(acc, tree, order)
       IN  /\ acc' = list
           /\ scanRes' = res
           /\ held' = HeldAfterScan(held, res, list)
    /\ scans' = IF scans = 0 THEN 1 ELSE 2
    /\ UNCHANGED <<textVars, infoVars, diskVars, ret>>

\* open(path).read() succeeds
Readable(t, unread, abs) == IsFile(t, RelPath(abs)) /\ abs \notin unread

Block(kind, name, path, body, n) ==
    [kind |-> kind, name |-> name, path |-> path, body |-> body, n |-> n]

\* a plausible slip: a failed read leaves no marker in the block
GmlBlockNoMarker(t, unread, r) == Block("gml", r.display, r.rel, "content", 0)

\* gms2_parser.py 257-270: the block of a script record
GmlBlock(t, unread, r) ==
    Block("gml", r.display, r.rel,
          IF Readable(t, unread, r.path) THEN "content" ELSE "error", 0)

\* a plausible slip: the set of emitted descriptors is not consulted
EmitsYYNoDedup(t, r, exported) == r.yy # NoPath /\ IsFile(t, RelPath(r.yy))

\* gms2_parser.py 273: the descriptor of r is emitted after its script block
EmitsYY(t, r, exported) ==
    r.yy # NoPath /\ IsFile(t, RelPath(r.yy)) /\ r.yy \notin exported

\* gms2_parser.py 274-290: the block of a descriptor file
YYBlock(t, unread, r) ==
    Block("yy", <<BaseName(Parent(r.yy))>>, RelPath(r.yy),
          IF Readable(t, unread, r.yy) THEN "content" ELSE "error", 0)

\* a plausible slip: the path is marked as emitted only when the read succeeds
MarkIfRead(t, unread, r, exported) ==
    IF Readable(t, unread, r.yy) THEN exported \cup {r.yy} ELSE exported

\* gms2_parser.py 292
Mark(t, unread, r, exported) == exported \cup {r.yy}

\* gms2_parser.py 255-292: the loop over the records from record i on
RECURSIVE ExportFrom(_, _, _, _, _)
ExportFrom(t, unread, recs, i, exported) ==
    IF i > Len(recs) THEN <<>>
    ELSE LET r == recs[i]
         IN  IF EmitsYY(t, r, exported)
             THEN <<GmlBlock(t, unread, r), YYBlock(t, unread, r)>>
                  \o ExportFrom(t, unread, recs, i + 1, Mark(t, unread, r, exported))
             ELSE <<GmlBlock(t, unread, r)>>
                  \o ExportFrom(t, unread, recs, i + 1, exported)

\* gms2_parser.py 244-245: the scan export_all_data makes when the list is empty
AccForExport(old, t, ord) == IF old = <<>> THEN AccAfterScan(old, t, ord) ELSE old

\* gms2_parser.py 242-294
ExportResult(old, t, ord, unread, at) ==
    IF old = <<>> /\ ScanOutcome(t, ord) = "raise"
    THEN [op |-> "export", kind |-> "raise", arg |-> NoPath, recs |-> <<>>,
          at |-> at, blocks |-> <<>>]
    ELSE LET recs == AccForExport(old, t, ord)
         IN  [op |-> "export", kind |-> "ok", arg |-> NoPath, recs |-> recs, at |-> at,
              blocks |-> <<Block("header", <<ProjectPath>>, NoPath, "", Len(recs))>>
                         \o ExportFrom(t, unread, recs, 1, {})]

ExportAllData ==
    /\ LET list == AccForExport(acc, tree, order)
       IN  /\ acc' = list
           /\ held' = Shared(held, list)
    /\ ret' = ExportResult(acc, tree, order, unreadable, mods)
    /\ UNCHANGED <<textVars, infoVars, diskVars, scanRes, scans>>

\* a regular file that is not under the project root
OutsideFile == <<"/outside", "secret.gml">>

\* the path arguments of the get_gml_file_content tool: absolute and relative
\* paths of the tree, the absolute path of the outside file and a relative
\* path that climbs out of the root to it
PathArgs ==
    {Abs(p) : p \in FileCands \cup DirCands} \cup FileCands \cup DirCands
    \cup {OutsideFile, <<"..", "outside", "secret.gml">>}

\* os.path.isabs
IsAbs(a) == a # <<>> /\ a[1] \in {ProjectPath, "/outside"}

\* mcp_server.py 281-283: a relative path is joined to the project path
ToolPath(a) == IF IsAbs(a) THEN a ELSE <<ProjectPath>> \o a

\* the path the file system resolves abs to: ".." after the project root
\* leads to the directory above it
Resolve(abs) ==
    IF Len(abs) >= 3 /\ abs[1] = ProjectPath /\ abs[2] = ".."
    THEN <<"/" \o abs[3]>> \o SubSeq(abs, 4, Len(abs))
    ELSE abs

\* os.path.isfile(abs); the root must be a directory for ".." to lead out of it
IsFileAt(t, abs) ==
    IF abs[1] # ProjectPath THEN abs = OutsideFile
    ELSE IF Len(abs) >= 2 /\ abs[2] = ".."
    THEN IsDir(t, <<>>) /\ Resolve(abs) = OutsideFile
    ELSE IsFile(t, RelPath(abs))

\* os.path.relpath(abs, self.project_path)
RelativeTo(abs) ==
    IF abs[1] = ProjectPath THEN RelPath(abs) ELSE <<"..", "outside">> \o Tail(abs)

\* gms2_parser.py 140-156
GmlContent(t, unread, abs, at) ==
    IF ~IsFileAt(t, abs)
    THEN [op |-> "gml", kind |-> "not_found", arg |-> abs, recs |-> <<>>,
          at |-> at, blocks |-> <<>>]
    ELSE IF abs \in unread
    THEN [op |-> "gml", kind |-> "error", arg |-> abs, recs |-> <<>>, at |-> at,
          blocks |-> <<>>]
    ELSE [op |-> "gml", kind |-> "ok", arg |-> abs, recs |-> <<>>, at |-> at,
          blocks |-> <<Block("content", <<>>, RelativeTo(abs), "content", 0)>>]

GetGmlContent ==
    /\ \E a \in PathArgs : ret' = GmlContent(tree, unreadable, ToolPath(a), mods)
    /\ UNCHANGED <<textVars, infoVars, diskVars, acc, scanRes, scans, held>>

\* GMS2ProjectParser(project_path): a new parser object takes the place of the
\* old one; what the old one returned stays with its caller, and the index
\* followed from here on is the first one the new parser returns
NewParser ==
    /\ acc # <<>>
    /\ acc' = <<>>
    /\ held' = NoHeld
    /\ UNCHANGED <<textVars, infoVars, diskVars, scanRes, ret, scans>>

(***************************************************************************)
(* Changes of the project tree between calls.                              *)
(***************************************************************************)
Under(p, d) == Len(p) >= Len(d) /\ SubSeq(p, 1, Len(d)) = d

\* rm -r p
Remove ==
    \E p \in tree.files \cup tree.dirs :
        /\ tree' = [tree EXCEPT !.files = {q \in @ : ~Under(q, p)},
                                !.dirs = {q \in @ : ~Under(q, p)}]
        /\ unreadable' = {a \in unreadable : ~Under(RelPath(a), p)}

RemoveRoot ==
    /\ tree.root # "none"
    /\ tree' = [root |-> "none", files |-> {}, dirs |-> {}]
    /\ unreadable' = {}

\* a new file or directory in an existing directory
Create ==
    /\ \/ /\ tree.root = "none"
          /\ \E k \in {"file", "dir"} : tree' = [tree EXCEPT !.root = k]
       \/ \E p \in FileCands \ (tree.files \cup tree.dirs) :
             IsDir(tree, Parent(p)) /\ tree' = [tree EXCEPT !.files = @ \cup {p}]
       \/ \E p \in DirCands \ (tree.files \cup tree.dirs) :
             IsDir(tree, Parent(p)) /\ tree' = [tree EXCEPT !.dirs = @ \cup {p}]
    /\ UNCHANGED unreadable

\* chmod: a file can no longer be read
Protect ==
    /\ \E p \in tree.files : unreadable' = unreadable \cup {Abs(p)}
    /\ UNCHANGED tree

ChangeTree ==
    /\ mods < MaxMods
    /\ mods' = mods + 1
    /\ Remove \/ RemoveRoot \/ Create \/ Protect
    /\ order' \in {"up", "down"}
    /\ UNCHANGED <<textVars, infoVars, parserVars>>

IdleDisk ==
    /\ tree = [root |-> "none", files |-> {}, dirs |-> {}]
    /\ order = "up"
    /\ unreadable = {}
    /\ acc = <<>>
    /\ scanRes = NoScan
    /\ ret = NoRet
    /\ scans = 0
    /\ mods = 0
    /\ held = NoHeld

IdleText ==
    /\ text = <<>>
    /\ passes = 0
    /\ prevText = <<>>
    /\ doc = <<>>
    /\ content = <<>>
    /\ fileState = "missing"
    /\ info = [op |-> "none", kind |-> "none", data |-> None, formatted |-> <<>>]

\* Spec: a parser on any project tree; the tree does not change
Init ==
    /\ IdleText
    /\ tree \in Trees
    /\ order \in {"up", "down"}
    /\ unreadable = {}
    /\ acc = <<>>
    /\ scanRes = NoScan
    /\ ret = NoRet
    /\ scans = 0
    /\ mods = 0
    /\ held = NoHeld

Next == ScanProject \/ ExportAllData \/ NewParser

Spec == Init /\ [][Next]_vars

\* SpecFile: get_gml_content on any path of any project tree
NextFile == GetGmlContent

SpecFile == Init /\ [][NextFile]_vars

\* SpecChange: a parser on a full project whose tree changes between the calls
FullTree ==
    [root |-> "dir",
     files |-> FileCands,
     dirs |-> DirCands \ {<<"objects", "o1", "b.gml">>}]

InitChange ==
    /\ IdleText
    /\ tree = FullTree
    /\ order \in {"up", "down"}
    /\ unreadable = {}
    /\ acc = <<>>
    /\ scanRes = NoScan
    /\ ret = NoRet
    /\ scans = 0
    /\ mods = 0
    /\ held = NoHeld

NextChange == ScanProject \/ ExportAllData \/ NewParser \/ ChangeTree

SpecChange == InitChange /\ [][NextChange]_vars

(***************************************************************************)
(* SpecRepair: the repair pass applied, and applied again, to any text.    *)
(***************************************************************************)
NoInfo == [op |-> "none", kind |-> "none", data |-> None, formatted |-> <<>>]

InitRepair ==
    /\ text \in Texts(MaxLen)
    /\ passes = 0
    /\ prevText = <<>>
    /\ doc = <<>>
    /\ content = <<>>
    /\ fileState = "missing"
    /\ info = NoInfo
    /\ IdleDisk

RepairPass ==
    /\ passes < MaxPasses
    /\ prevText' = text
    /\ text' = Repair(text)
    /\ passes' = passes + 1
    /\ UNCHANGED <<infoVars, diskVars, parserVars>>

NextRepair == RepairPass

SpecRepair == InitRepair /\ [][NextRepair]_vars

(***************************************************************************)
(* SpecInfo: get_room_info and get_object_info on a descriptor file.       *)
(***************************************************************************)
InitInfo ==
    /\ doc \in Docs
    /\ \E S \in CommaChoices(doc) : content = InsertCommas(doc, S)
    /\ fileState \in {"missing", "file", "unreadable"}
    /\ info = NoInfo
    /\ text = <<>>
    /\ passes = 0
    /\ prevText = <<>>
    /\ IdleDisk

Failed(op, kind) == [op |-> op, kind |-> kind, data |-> None, formatted |-> <<>>]

\* gms2_parser.py 158-184
RoomInfo ==
    IF fileState = "missing" THEN Failed("room", "not_found")
    ELSE IF fileState = "unreadable" THEN Failed("room", "read_error")
    ELSE LET loaded == Loads(Repair(content))
         IN  IF ~loaded.ok THEN Failed("room", "parse_error")
             ELSE IF FormatRoomRaises(loaded.val) THEN Failed("room", "read_error")
             ELSE [op |-> "room", kind |-> "ok", data |-> loaded.val,
                   formatted |-> FormatRoomData(loaded.val)]

\* gms2_parser.py 186-212
ObjectInfo ==
    IF fileState = "missing" THEN Failed("object", "not_found")
    ELSE IF fileState = "unreadable" THEN Failed("object", "read_error")
    ELSE LET loaded == Loads(Repair(content))
         IN  IF ~loaded.ok THEN Failed("object", "parse_error")
             ELSE IF FormatObjectRaises(loaded.val) THEN Failed("object", "read_error")
             ELSE [op |-> "object", kind |-> "ok", data |-> loaded.val,
                   formatted |-> FormatObjectData(loaded.val)]

GetRoomInfo ==
    /\ info' = RoomInfo
    /\ UNCHANGED <<textVars, doc, content, fileState, diskVars, parserVars>>

GetObjectInfo ==
    /\ info' = ObjectInfo
    /\ UNCHANGED <<textVars, doc, content, fileState, diskVars, parserVars>>

NextInfo == GetRoomInfo \/ GetObjectInfo

SpecInfo == InitInfo /\ [][NextInfo]_vars

(***************************************************************************)
(* Properties of the repair and of the loaders.                            *)
(***************************************************************************)

\* C3: the repair is idempotent: a second pass over repaired text leaves it
\* unchanged, repair(repair(t)) = repair(t).
C3_RepairIdempotent == passes >= 2 => text = prevText

\* the loaded room or object record, and what the document holds
Rendered == info.kind = "ok"
DocValue == Loads(doc).val
LoadedFrom(op) == info.op = op /\ Rendered

\* C8: a document with a trailing comma written before any subset of its
\* closing brackets and braces loads, and loads to the value of the document
\* without those commas.
C8_LoadsValueWithoutCommas ==
    (info.op # "none" /\ fileState = "file" /\ Loads(doc).ok)
        => /\ info.kind # "parse_error"
           /\ Rendered => info.data = DocValue

(***************************************************************************)
(* Properties of the rendered trees.                                       *)
(***************************************************************************)
Depth(l) == Len(l.pre)

\* line i is the last of its sibling group: no later line of the same depth
\* follows before a line of smaller depth
LastSibling(ls, i) ==
    ~\E j \in (i + 1)..Len(ls) :
        /\ Depth(ls[j]) = Depth(ls[i])
        /\ \A m \in (i + 1)..(j - 1) : Depth(ls[m]) > Depth(ls[i])

CountKind(ls, kind) == Cardinality({i \in 1..Len(ls) : ls[i].kind = kind})

\* C4: in a rendered room tree a node uses the terminal glyph exactly when it
\* is the last of its sibling group; so "Layers" uses the branch glyph only
\* when "Properties" is emitted after it.
C4_TerminalGlyphIffLast ==
    LoadedFrom("room") =>
        \A i \in 2..Len(info.formatted) :
            (info.formatted[i].glyph = Corner) <=> LastSibling(info.formatted, i)

RoomLayers == Get(info.data, Key("layers"), Arr(<<>>))
LayerLineAt(k) ==
    CHOOSE i \in 1..Len(info.formatted) :
        /\ info.formatted[i].kind = "layer"
        /\ Cardinality({j \in 1..i : info.formatted[j].kind = "layer"}) = k

\* C9: a room record with N layers renders one "Layers (N)" header with that
\* N and N layer lines, one per layer in the order of the record.
C9_LayerCountRoundTrip ==
    LoadedFrom("room") =>
        /\ CountKind(info.formatted, "layers") = 1
        /\ \A i \in 1..Len(info.formatted) :
              info.formatted[i].kind = "layers" => info.formatted[i].n = SizeOf(RoomLayers)
        /\ CountKind(info.formatted, "layer") = SizeOf(RoomLayers)
        /\ \A k \in 1..SizeOf(RoomLayers) :
              /\ info.formatted[LayerLineAt(k)].tag
                    = StripGM(LayerType(Items(RoomLayers)[k]).s)
              /\ Has(Items(RoomLayers)[k], Key("name"))
                    => info.formatted[LayerLineAt(k)].name
                          = Show(Get(Items(RoomLayers)[k], Key("name"), None))

C9_Witness ==
    /\ LoadedFrom("room")
    /\ SizeOf(RoomLayers) = MaxLayers
    /\ CountKind(info.formatted, "layer") = MaxLayers
    /\ content # doc

ObjectEvents == Get(info.data, Key("eventList"), Arr(<<>>))
ObjectVars == Get(info.data, Key("properties"), Arr(<<>>))
SectionAt(name) ==
    CHOOSE i \in 1..Len(info.formatted) :
        info.formatted[i].kind = "section" /\ info.formatted[i].name = <<name>>

\* the lines of a section: those after its header up to the next blank line
SectionLines(name) ==
    {i \in (SectionAt(name) + 1)..Len(info.formatted) :
        \A m \in (SectionAt(name) + 1)..i : info.formatted[m].kind # "blank"}

HeadersReportCounts ==
    /\ info.formatted[SectionAt("Events")].n = SizeOf(ObjectEvents)
    /\ info.formatted[SectionAt("Object Variables")].n = SizeOf(ObjectVars)

VarLines ==
    {i \in SectionLines("Object Variables") : info.formatted[i].kind = "var"}

\* C10 as claimed: the headers report N and M, the Events section has N detail
\* lines and the Object Variables section has M.
C10_Original ==
    LoadedFrom("object") =>
        /\ HeadersReportCounts
        /\ Cardinality(SectionLines("Events")) = SizeOf(ObjectEvents)
        /\ Cardinality(VarLines) = SizeOf(ObjectVars)

\* C10 amended: the headers report N and M; the Events section is the header
\* alone, with no line per event; the Object Variables section has M variable
\* lines, and the single line "(None)" in their place when M = 0.
C10_CountsRoundTrip ==
    LoadedFrom("object") =>
        /\ HeadersReportCounts
        /\ SectionLines("Events") = {}
        /\ Cardinality(VarLines) = SizeOf(ObjectVars)
        /\ SizeOf(ObjectVars) > 0 => SectionLines("Object Variables") = VarLines
        /\ SizeOf(ObjectVars) = 0 =>
              /\ Cardinality(SectionLines("Object Variables")) = 1
              /\ \A i \in SectionLines("Object Variables") :
                    info.formatted[i].kind = "none"

C10_Witness ==
    /\ LoadedFrom("object")
    /\ SizeOf(ObjectEvents) = MaxEvents
    /\ SizeOf(ObjectVars) = MaxVars
    /\ Cardinality(VarLines) = MaxVars

(***************************************************************************)
(* Properties of the scan and of the export.                               *)
(***************************************************************************)

\* C1: no inspection operation raises an exception to its caller: each
\* returns a value, an error value included, on every tree and argument.
C1_NeverRaises ==
    /\ scanRes.kind # "raise"
    /\ ret.kind # "raise"
    /\ info.kind # "raise"

HasManifest == \E p \in tree.files \cup tree.dirs : Len(p) = 1 /\ EndsWith(p[1], ".yyp")
Scanned == scanRes.kind # "none"

\* C2: scan_project fails with the not-found error when the root does not
\* exist and with the missing-manifest error when the root exists and no
\* manifest is directly under it; in both cases no index is returned.
C2_ScanErrors ==
    Scanned =>
        /\ ~Exists(tree, <<>>) => scanRes.kind = "not_found"
        /\ (Exists(tree, <<>>) /\ ~HasManifest) => scanRes.kind = "no_manifest"
        /\ scanRes.kind \in {"not_found", "no_manifest"}
              => scanRes.categories = <<>> /\ scanRes.gml = <<>>

\* C5: on an unmodified tree every scan_project call, by the same parser or
\* by a new one, returns what the call before it returned: the same
\* categories, asset entries and script records in the same order.
C5_ScanTwiceSame == [][Scanned => scanRes' = scanRes]_vars

C5_Witness ==
    /\ scans = 2
    /\ scanRes.kind = "ok"
    /\ Len(scanRes.gml) >= 2
    /\ \E i \in 1..Len(scanRes.categories) :
          \E j \in 1..Len(scanRes.categories[i].info.assets) :
              Len(scanRes.categories[i].info.assets[j].gml_files) >= 2

\* p lies inside a direct child folder of the root with a reserved name
InReserved(p) == Len(p) >= 2 /\ Lower(p[1]) \in ReservedFolders
ScriptFiles == {p \in tree.files : EndsWith(BaseName(p), ".gml")}
Range(q) == {q[i] : i \in 1..Len(q)}
RecordPaths(recs) == {recs[i].path : i \in 1..Len(recs)}

\* C6: no script file inside a reserved top-level folder, at any depth, is
\* among the records of the full-tree pass, the walk visits no directory
\* below such a folder, and every other script file is among the records.
C6_ReservedPruned ==
    scanRes.kind = "ok" =>
        /\ RecordPaths(scanRes.gml) = {Abs(p) : p \in {q \in ScriptFiles : ~InReserved(q)}}
        /\ \A d \in Range(WalkFrom(tree, order, <<>>)) : ~InReserved(d)

C6_Witness ==
    /\ scanRes.kind = "ok"
    /\ NestDir(MaxNest) \o <<"a.gml">> \in tree.files
    /\ <<"Options", "a.gml">> \in tree.files
    /\ Abs(<<"objects", "options", "a.gml">>) \in RecordPaths(scanRes.gml)

Exported == ret.op = "export" /\ ret.kind = "ok"
LinkedDescriptors == {ret.recs[i].yy : i \in 1..Len(ret.recs)} \ {NoPath}
FirstLinking(y) ==
    CHOOSE i \in 1..Len(ret.recs) :
        ret.recs[i].yy = y /\ \A j \in 1..(i - 1) : ret.recs[j].yy # y
YYBlocksOf(y) ==
    {b \in 1..Len(ret.blocks) :
        ret.blocks[b].kind = "yy" /\ ret.blocks[b].path = RelPath(y)}
\* the position of the script block of record i
GmlBlockOf(i) ==
    CHOOSE b \in 1..Len(ret.blocks) :
        /\ ret.blocks[b].kind = "gml"
        /\ Cardinality({c \in 1..b : ret.blocks[c].kind = "gml"}) = i

EmittedOnceAfterFirst(y) ==
    /\ Cardinality(YYBlocksOf(y)) = 1
    /\ YYBlocksOf(y) = {GmlBlockOf(FirstLinking(y)) + 1}

\* C7 as claimed: in one export the block of a descriptor that script records
\* link to is emitted exactly once, directly after the first of them.
C7_Original == Exported => \A y \in LinkedDescriptors : EmittedOnceAfterFirst(y)

\* the tree is as it was when the last export ran
TreeAsExported == ret.at = mods

\* C7 amended: a linked descriptor that is a regular file when the export runs
\* is emitted exactly once, directly after the first record linking it, also
\* when reading it fails; one that is no longer a regular file is not emitted.
C7_DescriptorOnce ==
    (Exported /\ TreeAsExported) =>
        \A y \in LinkedDescriptors :
            IF IsFile(tree, RelPath(y))
            THEN EmittedOnceAfterFirst(y)
            ELSE YYBlocksOf(y) = {}

C7_Witness ==
    /\ Exported
    /\ \E i, j \in 1..Len(ret.recs) :
          /\ i < j
          /\ ret.recs[i].yy # NoPath
          /\ ret.recs[i].yy = ret.recs[j].yy
          /\ ret.recs[i].yy \in unreadable
          /\ EmittedOnceAfterFirst(ret.recs[i].yy)
          /\ \A b \in YYBlocksOf(ret.recs[i].yy) : ret.blocks[b].body = "error"

(***************************************************************************)
(* Further properties of the scan.                                         *)
(***************************************************************************)
Manifests == {p \in tree.files \cup tree.dirs : Len(p) = 1 /\ EndsWith(p[1], ".yyp")}

\* C11: scan_project accepts a root only if exactly one manifest (.yyp) file
\* is directly under it; with none, or with two or more, it returns an error.
C11_ExactlyOneManifest == scanRes.kind = "ok" => Cardinality(Manifests) = 1

(***************************************************************************)
(* Further properties of the export.                                       *)
(***************************************************************************)
ExportedHere == ret.op = "export" /\ TreeAsExported
GmlBlocks == {b \in 1..Len(ret.blocks) : ret.blocks[b].kind = "gml"}
YYBlocks == {b \in 1..Len(ret.blocks) : ret.blocks[b].kind = "yy"}
BodyOf(abs) == IF Readable(tree, unreadable, abs) THEN "content" ELSE "error"

\* C12: a script or descriptor file that cannot be read does not abort the
\* export: every record of the list has its block, in order, the body of a
\* block is the error marker exactly when its file cannot be read, and the
\* records after a failing one are exported as usual.  (The only export that
\* ends without a text is one whose own scan raised on a root that is a
\* regular file; it has read no file.)
C12_ReadFailureLocal ==
    ExportedHere =>
        IF ret.kind = "raise" THEN IsFile(tree, <<>>) /\ ret.recs = <<>>
        ELSE /\ Cardinality(GmlBlocks) = Len(ret.recs)
             /\ \A i \in 1..Len(ret.recs) :
                   LET b == ret.blocks[GmlBlockOf(i)]
                   IN  /\ b.name = ret.recs[i].display
                       /\ b.path = ret.recs[i].rel
                       /\ b.body = BodyOf(ret.recs[i].path)
             /\ \A b \in YYBlocks : ret.blocks[b].body = BodyOf(Abs(ret.blocks[b].path))

C12_Witness ==
    /\ ExportedHere
    /\ ret.kind = "ok"
    /\ \E i, j \in 1..Len(ret.recs) :
          /\ i < j
          /\ ret.recs[i].path \in unreadable
          /\ ret.blocks[GmlBlockOf(i)].body = "error"
          /\ ret.blocks[GmlBlockOf(j)].body = "content"

\* the paths of the script-file entries of the category pass
CategoryGmlPaths ==
    {scanRes.categories[i].info.assets[j].gml_files[k].path :
        <<i, j, k>> \in
            {<<i, j, k>> \in (1..Len(scanRes.categories)) \X (1..4) \X (1..4) :
                /\ j <= Len(scanRes.categories[i].info.assets)
                /\ k <= Len(scanRes.categories[i].info.assets[j].gml_files)}}

\* C13: after a successful scan every script-file entry of every asset of
\* the category pass is, by its absolute path, the path of some record of the
\* full-tree pass.
C13_FullTreeSuperset ==
    scanRes.kind = "ok" => CategoryGmlPaths \subseteq RecordPaths(scanRes.gml)

(***************************************************************************)
(* Further properties of the rendered trees.                               *)
(***************************************************************************)
\* the line under which line i hangs: the nearest earlier line one level up
ParentOf(ls, i) ==
    CHOOSE j \in 2..(i - 1) :
        /\ Depth(ls[j]) = Depth(ls[i]) - 1
        /\ \A m \in (j + 1)..(i - 1) : Depth(ls[m]) >= Depth(ls[i])

\* C14: in a rendered room tree the prefix of every child line is its
\* parent's prefix followed by the vertical-continuation segment when the
\* parent is drawn with the branch glyph and by the blank segment when it is
\* drawn with the terminal glyph, at every depth.
C14_PrefixFromParent ==
    LoadedFrom("room") =>
        \A i \in 2..Len(info.formatted) :
            Depth(info.formatted[i]) >= 1 =>
                LET parent == info.formatted[ParentOf(info.formatted, i)]
                IN  info.formatted[i].pre =
                        parent.pre \o <<IF parent.glyph = Branch THEN Bar ELSE Blank>>

(***************************************************************************)
(* Properties of the record list of a parser.                              *)
(***************************************************************************)
\* C15: every scan_project call clears the record list first: when a call
\* returns, the list holds exactly the records that call produced, and none
\* when the call failed.
C15_ClearedOnEveryScan == [][scanRes' # scanRes => acc' = scanRes'.gml]_vars

\* the instances of layer k of the loaded room, their object names and how
\* often a name occurs
InstancesOf(k) == Items(Get(Items(RoomLayers)[k], Key("instances"), Arr(<<>>)))
ObjectNames(k) == {Show(InstName(InstancesOf(k)[m])) : m \in 1..Len(InstancesOf(k))}
Occurrences(k, nm) ==
    Cardinality({m \in 1..Len(InstancesOf(k)) : Show(InstName(InstancesOf(k)[m])) = nm})

\* under the line of layer k: an "Instances (N)" line with the number of
\* instances, then one line per distinct object name in the order of the
\* names, marked with its count when it occurs more than once
InstancesSection(k) ==
    LET ls == info.formatted
        i == LayerLineAt(k)
        d == Cardinality(ObjectNames(k))
    IN  /\ i + 1 + d <= Len(ls)
        /\ ls[i + 1].kind = "instances"
        /\ ls[i + 1].n = Len(InstancesOf(k))
        /\ \A j \in 1..d :
              /\ ls[i + 1 + j].kind = "object"
              /\ ls[i + 1 + j].name \in ObjectNames(k)
              /\ ls[i + 1 + j].n = Occurrences(k, ls[i + 1 + j].name)
              /\ ls[i + 1 + j].tag = IF ls[i + 1 + j].n > 1 THEN <<"x">> ELSE <<>>
              /\ \A h \in 1..(j - 1) :
                    NameRank(ls[i + 1 + h].name) < NameRank(ls[i + 1 + j].name)
        /\ i + 2 + d <= Len(ls) => ls[i + 2 + d].kind # "object"

IsInstanceLayer(k) == LayerType(Items(RoomLayers)[k]) = Str(<<"GMInstanceLayer">>)

\* C16: every instance layer of a rendered room, with N >= 0 instances, has
\* under its line an "Instances (N)" node followed by one line per distinct
\* object name, in the order of the names, marked "(xK)" exactly when the
\* name occurs K > 1 times.
C16_InstancesSection ==
    LoadedFrom("room") =>
        \A k \in 1..SizeOf(RoomLayers) : IsInstanceLayer(k) => InstancesSection(k)

(***************************************************************************)
(* The export of a parser that has made no scan.                           *)
(***************************************************************************)
\* the last call was an export, and no scan_project call was made before it
\* other than the one the export makes itself
FirstExport == ret.op = "export" /\ scans = 0

\* the text of the export: the header with the root path and the count, then
\* the blocks of the records, in the order of the records
ExportLayout ==
    /\ ret.kind = "ok"
    /\ ret.blocks # <<>>
    /\ ret.blocks[1].kind = "header"
    /\ ret.blocks[1].name = <<ProjectPath>>
    /\ ret.blocks[1].n = Cardinality(GmlBlocks)
    /\ Cardinality(GmlBlocks) = Len(ret.recs)
    /\ \A i \in 1..Len(ret.recs) :
          /\ ret.blocks[GmlBlockOf(i)].name = ret.recs[i].display
          /\ ret.blocks[GmlBlockOf(i)].path = ret.recs[i].rel
    /\ \A y \in LinkedDescriptors : EmittedOnceAfterFirst(y)

\* C17: export_all_data on a parser that has made no scan first scans the
\* tree, then emits the header with the root path and the number of script
\* records and one block per record of the full-tree pass, in that order;
\* the header count is the number of script blocks, and each descriptor block
\* directly follows the script block of the first record linking to it.
C17_FirstExportScans ==
    FirstExport =>
        /\ ExportLayout
        /\ ret.recs = IF ScanOutcome(tree, order) = "ok"
                      THEN ScanGmlFiles(tree, order) ELSE <<>>

(***************************************************************************)
(* The "Physics Properties" block of a rendered object.                    *)
(***************************************************************************)
PhysicsFlag == Truthy(Get(info.data, Key("physicsObject"), Lit("false")))
PhysicsBlock == SectionLines("Physics Properties")

\* the label, the field of the record and the default of each field line
PhysicsTable ==
    <<<<"Sensor", "physicsSensor", Lit("false")>>,
      <<"Shape", "physicsShape", Num(<<"1">>)>>,
      <<"Density", "physicsDensity", Num(<<"0.5">>)>>,
      <<"Restitution", "physicsRestitution", Num(<<"0.1">>)>>,
      <<"Group", "physicsGroup", Num(<<"1">>)>>,
      <<"Linear Damping", "physicsLinearDamping", Num(<<"0.1">>)>>,
      <<"Angular Damping", "physicsAngularDamping", Num(<<"0.1">>)>>,
      <<"Friction", "physicsFriction", Num(<<"0.2">>)>>,
      <<"Awake", "physicsStartAwake", Lit("true")>>,
      <<"Kinematic", "physicsKinematic", Lit("false")>>>>

DisabledBlock ==
    /\ Cardinality(PhysicsBlock) = 1
    /\ \A i \in PhysicsBlock :
          /\ info.formatted[i].name = <<"Enabled">>
          /\ info.formatted[i].tag = <<"False">>

\* C18 as claimed: the block of an object whose physics flag is set consists
\* of exactly nine field lines, and of the line "Enabled: False" otherwise.
C18_Original ==
    LoadedFrom("object") =>
        IF PhysicsFlag
        THEN /\ Cardinality(PhysicsBlock) = 9
             /\ \A i \in PhysicsBlock : info.formatted[i].kind = "field"
        ELSE DisabledBlock

\* C18 amended: the block of an object whose physics flag is set consists of
\* the line "Enabled: True" followed by exactly ten field lines, Sensor,
\* Shape, Density, Restitution, Group, Linear Damping, Angular Damping,
\* Friction, Awake and Kinematic, each showing the field of the record or its
\* default when the field is absent; otherwise the block is the single line
\* "Enabled: False".
C18_PhysicsBlock ==
    LoadedFrom("object") =>
        IF PhysicsFlag
        THEN LET at == SectionAt("Physics Properties")
             IN  /\ PhysicsBlock = (at + 1)..(at + 1 + Len(PhysicsTable))
                 /\ Len(PhysicsTable) = 10
                 /\ info.formatted[at + 1].name = <<"Enabled">>
                 /\ info.formatted[at + 1].tag = <<"True">>
                 /\ \A j \in 1..Len(PhysicsTable) :
                       /\ info.formatted[at + 1 + j].kind = "field"
                       /\ info.formatted[at + 1 + j].name = <<PhysicsTable[j][1]>>
                       /\ info.formatted[at + 1 + j].tag
                             = Show(Get(info.data, Key(PhysicsTable[j][2]),
                                        PhysicsTable[j][3]))
        ELSE DisabledBlock

C18_Witness ==
    /\ LoadedFrom("object")
    /\ PhysicsFlag
    /\ Has(info.data, Key("physicsShape"))
    /\ ~Has(info.data, Key("physicsKinematic"))
    /\ Cardinality(PhysicsBlock) = 11

(***************************************************************************)
(* An index in the hands of its caller.                                    *)
(***************************************************************************)
\* C19: an index that scan_project returned is not changed by later calls
\* on the parser: it keeps the gml_files it had when it was returned, and its
\* total_gml_files is the length of its gml_files.
C19_IndexUnchanged ==
    [][(held.kind = "ok" /\ held'.kind = "ok")
          => held'.gml = held.gml /\ held'.total = Len(held'.gml)]_vars

(***************************************************************************)
(* The repair on text that needs none.                                     *)
(***************************************************************************)
\* C20: a descriptor file whose text is valid as it stands loads to the
\* value of that text: the repair changes nothing of its meaning, also when
\* a string literal holds a comma followed by a closing bracket or brace.
C20_ValidTextUnchanged ==
    (info.op # "none" /\ fileState = "file" /\ Loads(content).ok)
        => /\ info.kind # "parse_error"
           /\ Rendered => info.data = Loads(content).val

(***************************************************************************)
(* The export of a project that cannot be scanned.                         *)
(***************************************************************************)
\* the scan of the tree fails with the not-found or missing-manifest error
ScanFails == ScanOutcome(tree, order) \in {"not_found", "no_manifest"}

\* C21: on a root that does not exist or has no manifest, export_all_data
\* yields an error and not an export text with a header reporting no scripts.
C21_ExportReportsScanFailure ==
    (ret.op = "export" /\ TreeAsExported /\ ScanFails) => ret.kind \notin {"ok", "raise"}

(***************************************************************************)
(* The files the inspection operations read.                               *)
(***************************************************************************)
\* the file that abs resolves to lies under the project root
InsideRoot(abs) ==
    /\ Resolve(abs)[1] = ProjectPath
    /\ \A i \in 1..Len(Resolve(abs)) : Resolve(abs)[i] # ".."

\* C22: a file whose content get_gml_content returns lies under the project
\* root, whatever path is given, absolute or relative with ".." in it; for
\* any other path an error is returned and nothing is read.
C22_ReadsOnlyUnderRoot ==
    (ret.op = "gml" /\ ret.kind = "ok") => InsideRoot(ret.arg)

====
